---- MODULE Spec2Model ----
(***************************************************************************)
(* The queue infrastructure of the monorepo's BullMQ guide:                *)
(*   packages/config/src/queue.ts   getQueueConnection, closeQueueConnection*)
(*   packages/config/src/queues.ts  getMyQueue                             *)
(*   packages/<pkg>/src/queue/worker.ts  startWorker, stopWorker           *)
(*   apps/worker/src/index.ts       main, shutdown, signal handlers        *)
(*                                                                         *)
(* The module-level singletons (queueConnection, myQueue, worker) are the  *)
(* state.  Synchronous functions are one action each.  An async function   *)
(* is a frame whose pc stops at every await; the code between two awaits   *)
(* is one action (JavaScript runs it to completion).  The continuations    *)
(* that are ready to run (microtasks) run before any new call, signal or   *)
(* I/O completion is handled.                                              *)
(*                                                                         *)
(* Redis (ioredis) and Worker/Queue (bullmq) are third-party objects: a    *)
(* Redis instance is an identity with a status and a count of quit()       *)
(* calls, a Worker is an identity with a status and the connection it was  *)
(* given.  worker.close() settles when the worker is closed and            *)
(* connection.quit() settles when the link is closed; both are taken to    *)
(* fulfil.                                                                 *)
(***************************************************************************)
EXTENDS Integers, FiniteSets, Bags, TLC

\* Bounds of the model.
MaxConns == 3
MaxWorkers == 2
MaxCalls == 3

Null == 0
ConnIds == 1..MaxConns
Signals == {"SIGINT", "SIGTERM"}
WorkerIds == 1..MaxWorkers

VARIABLES
    queueConnection,  \* queue.ts: the cached Redis instance or Null
    conns,            \* every Redis instance: status and number of quit() calls
    myQueue,          \* queues.ts: the cached Queue or Null
    worker,           \* worker.ts: the cached Worker or Null
    workers,          \* every Worker instance: status and the connection it was given
    frames,           \* the suspended async calls (a bag): which function, at which await
    started,          \* index.ts: main() has run
    exited,           \* index.ts: process.exit was called
    op,               \* the function the last step entered or resumed
    ret,              \* the value the last call returned synchronously
    acq,              \* what getQueueConnection() returned in the last step, Null if not called
    stopDone,         \* a stopWorker() call has run to its last statement
    lastAcq,          \* the value of the most recent getQueueConnection()
    relSince,         \* a closeQueueConnection() completed since that value was returned
    lastReleased      \* the instance the last completed closeQueueConnection() quit

vars == <<queueConnection, conns, myQueue, worker, workers, frames, started,
          exited, op, ret, acq, stopDone, lastAcq, relSince, lastReleased>>

NoConn == [status |-> "none", quits |-> 0]
NoWorker == [status |-> "none", connection |-> Null]
NoQueue == [name |-> "none", connection |-> Null]

Created(cs) == {c \in ConnIds : cs[c].status # "none"}
FreshConn(cs) == Cardinality(Created(cs)) + 1
CreatedWorkers(ws) == {w \in WorkerIds : ws[w].status # "none"}
FreshWorker(ws) == Cardinality(CreatedWorkers(ws)) + 1

\* The suspended calls, and room for one more within the bound.
Frames == BagToSet(frames)
CanCall == BagCardinality(frames) < MaxCalls
Push(f) == frames (+) SetToBag({f})
Pop(f) == frames (-) SetToBag({f})
Become(f, pc, c) ==
    IF pc = "done" THEN Pop(f)
    ELSE Pop(f) (+) SetToBag({[fn |-> f.fn, arg |-> f.arg, pc |-> pc, w |-> f.w, c |-> c]})

\* A continuation whose awaited promise has settled is a queued microtask.
Ready(f) ==
    \/ f.pc = "awaitClose" /\ workers[f.w].status = "closed"
    \/ f.pc = "awaitQuit" /\ conns[f.c].status = "end"
    \/ f.pc \in {"afterRelease", "afterStop"}
MicrotaskPending == \E f \in Frames : Ready(f)

\* A new call, a signal or an I/O completion is handled by the event loop
\* only when the microtask queue is empty and the process is alive.
Idle == ~exited /\ ~MicrotaskPending

\* queue.ts getQueueConnection: create on first demand, else the cached one.
getQueueConnection_uncached(qc, cs) ==
    [ret |-> FreshConn(cs),
     queueConnection |-> FreshConn(cs),
     conns |-> [cs EXCEPT ![FreshConn(cs)] = [status |-> "ready", quits |-> 0]]]

getQueueConnection(qc, cs) ==
    IF qc = Null
    THEN [ret |-> FreshConn(cs),
          queueConnection |-> FreshConn(cs),
          conns |-> [cs EXCEPT ![FreshConn(cs)] = [status |-> "ready", quits |-> 0]]]
    ELSE [ret |-> qc, queueConnection |-> qc, conns |-> cs]

\* getQueueConnection can construct a Redis instance within the bound.
CanAcquire(qc, cs) == qc # Null \/ FreshConn(cs) <= MaxConns

\* ioredis quit(): one more QUIT on the link; an open link starts closing.
Quit(cs, c) ==
    [cs EXCEPT ![c] = [status |-> IF @.status = "ready" THEN "quitting" ELSE @.status,
                       quits |-> @.quits + 1]]

\* queue.ts closeQueueConnection up to its await: quit() the cached instance,
\* or return at once when there is none.
closeQueueConnection(qc, cs) ==
    IF qc # Null
    THEN [pc |-> "awaitQuit", c |-> qc, conns |-> Quit(cs, qc)]
    ELSE [pc |-> "done", c |-> Null, conns |-> cs]

\* queue.ts closeQueueConnection after its await: queueConnection = null.
closeQueueConnection_resume(qc) == Null

\* queues.ts getMyQueue: create the Queue on first demand with the shared
\* connection, else the cached one.
getMyQueue(mq, qc, cs) ==
    IF mq = NoQueue
    THEN LET r == getQueueConnection(qc, cs) IN
         [ret |-> [name |-> "myQueueName", connection |-> r.ret],
          myQueue |-> [name |-> "myQueueName", connection |-> r.ret],
          queueConnection |-> r.queueConnection, conns |-> r.conns, acq |-> r.ret]
    ELSE [ret |-> mq, myQueue |-> mq, queueConnection |-> qc, conns |-> cs, acq |-> Null]

\* worker.ts startWorker: the existing Worker, or a new one on the queue's
\* name with the shared connection.
startWorker_unguarded(w, ws, mq, qc, cs) ==
    LET q == getMyQueue(mq, qc, cs)
        r == getQueueConnection(q.queueConnection, q.conns)
        n == FreshWorker(ws)
    IN [ret |-> n, worker |-> n,
        workers |-> [ws EXCEPT ![n] = [status |-> "running", connection |-> r.ret]],
        myQueue |-> q.myQueue, queueConnection |-> r.queueConnection,
        conns |-> r.conns, acq |-> r.ret]

startWorker(w, ws, mq, qc, cs) ==
    IF w # Null
    THEN [ret |-> w, worker |-> w, workers |-> ws, myQueue |-> mq,
          queueConnection |-> qc, conns |-> cs, acq |-> Null]
    ELSE LET q == getMyQueue(mq, qc, cs)
             r == getQueueConnection(q.queueConnection, q.conns)
             n == FreshWorker(ws)
         IN [ret |-> n, worker |-> n,
             workers |-> [ws EXCEPT ![n] = [status |-> "running", connection |-> r.ret]],
             myQueue |-> q.myQueue, queueConnection |-> r.queueConnection,
             conns |-> r.conns, acq |-> r.ret]

\* startWorker can construct its objects within the bounds.
CanStart ==
    \/ worker # Null
    \/ /\ FreshWorker(workers) <= MaxWorkers
       /\ CanAcquire(queueConnection, conns)

\* bullmq worker.close(): a running worker starts closing.
Close(ws, w) ==
    [ws EXCEPT ![w].status = IF @ = "running" THEN "closing" ELSE @]

\* worker.ts stopWorker up to its first await: return at once when there is
\* no worker, else worker.close().
stopWorker_closesUnstarted(w, ws, qc, cs) ==
    IF w = Null
    THEN IF qc = Null
         THEN [pc |-> "done", w |-> Null, c |-> Null, workers |-> ws, conns |-> cs]
         ELSE [pc |-> "awaitQuit", w |-> Null, c |-> qc, workers |-> ws,
               conns |-> Quit(cs, qc)]
    ELSE [pc |-> "awaitClose", w |-> w, c |-> Null, workers |-> Close(ws, w),
          conns |-> cs]

stopWorker(w, ws, qc, cs) ==
    IF w = Null
    THEN [pc |-> "done", w |-> Null, c |-> Null, workers |-> ws, conns |-> cs]
    ELSE [pc |-> "awaitClose", w |-> w, c |-> Null, workers |-> Close(ws, w),
          conns |-> cs]

\* worker.ts stopWorker after both awaits: worker = null.
stopWorker_resume(w) == Null

\* index.ts shutdown after stopWorker() has returned its promise: the pc at
\* which process.exit(0) runs.
shutdown_noawait(pc) == "afterStop"

shutdown(pc) == IF pc = "done" THEN "afterStop" ELSE pc

Init ==
    /\ queueConnection = Null
    /\ conns = [c \in ConnIds |-> NoConn]
    /\ myQueue = NoQueue
    /\ worker = Null
    /\ workers = [w \in WorkerIds |-> NoWorker]
    /\ frames = EmptyBag
    /\ started = FALSE
    /\ exited = FALSE
    /\ op = "init"
    /\ ret = Null
    /\ acq = Null
    /\ stopDone = FALSE
    /\ lastAcq = Null
    /\ relSince = FALSE
    /\ lastReleased = Null

\* A caller invokes getQueueConnection().
GetQueueConnectionCall ==
    /\ Idle
    /\ CanAcquire(queueConnection, conns)
    /\ LET r == getQueueConnection(queueConnection, conns) IN
        /\ queueConnection' = r.queueConnection
        /\ conns' = r.conns
        /\ ret' = r.ret
        /\ acq' = r.ret
        /\ lastAcq' = r.ret
    /\ relSince' = FALSE
    /\ op' = "getQueueConnection"
    /\ UNCHANGED <<myQueue, worker, workers, frames, started, exited, stopDone,
                   lastReleased>>

\* A caller invokes closeQueueConnection(): it runs to its await, or returns.
CloseQueueConnectionCall ==
    /\ Idle
    /\ queueConnection # Null => CanCall
    /\ LET r == closeQueueConnection(queueConnection, conns) IN
        /\ conns' = r.conns
        /\ frames' = IF r.pc = "done" THEN frames
                     ELSE Push([fn |-> "closeQueueConnection", arg |-> "none",
                                pc |-> r.pc, w |-> Null, c |-> r.c])
        /\ relSince' = IF r.pc = "done" THEN TRUE ELSE relSince
    /\ op' = "closeQueueConnection"
    /\ ret' = Null
    /\ acq' = Null
    /\ UNCHANGED <<queueConnection, myQueue, worker, workers, started, exited,
                   stopDone, lastAcq, lastReleased>>

\* A caller invokes getMyQueue().
GetMyQueueCall ==
    /\ Idle
    /\ myQueue = NoQueue => CanAcquire(queueConnection, conns)
    /\ LET r == getMyQueue(myQueue, queueConnection, conns) IN
        /\ myQueue' = r.myQueue
        /\ queueConnection' = r.queueConnection
        /\ conns' = r.conns
        /\ ret' = r.ret.connection
        /\ acq' = r.acq
        /\ lastAcq' = IF r.acq # Null THEN r.acq ELSE lastAcq
        /\ relSince' = IF r.acq # Null THEN FALSE ELSE relSince
    /\ op' = "getMyQueue"
    /\ UNCHANGED <<worker, workers, frames, started, exited, stopDone, lastReleased>>

\* The effect of one startWorker() call on the module state.
StartWorkerBody ==
    /\ CanStart
    /\ LET r == startWorker(worker, workers, myQueue, queueConnection, conns) IN
        /\ worker' = r.worker
        /\ workers' = r.workers
        /\ myQueue' = r.myQueue
        /\ queueConnection' = r.queueConnection
        /\ conns' = r.conns
        /\ ret' = r.ret
        /\ acq' = r.acq
        /\ lastAcq' = IF r.acq # Null THEN r.acq ELSE lastAcq
        /\ relSince' = IF r.acq # Null THEN FALSE ELSE relSince
    /\ op' = "startWorker"
    /\ UNCHANGED <<frames, exited, stopDone, lastReleased>>

\* A caller invokes startWorker(); the function has no await.
StartWorkerCall ==
    /\ Idle
    /\ StartWorkerBody
    /\ UNCHANGED started

\* A caller invokes stopWorker(): it runs to its first await, or returns.
StopWorkerCall ==
    /\ Idle
    /\ LET r == stopWorker(worker, workers, queueConnection, conns) IN
        /\ r.pc # "done" => CanCall
        /\ workers' = r.workers
        /\ conns' = r.conns
        /\ frames' = IF r.pc = "done" THEN frames
                     ELSE Push([fn |-> "stopWorker", arg |-> "none", pc |-> r.pc,
                                w |-> r.w, c |-> r.c])
    /\ op' = "stopWorker"
    /\ ret' = Null
    /\ acq' = Null
    /\ UNCHANGED <<queueConnection, myQueue, worker, started, exited, stopDone,
                   lastAcq, relSince, lastReleased>>

\* bullmq: the close of worker w completes.
WorkerCloseResolves(w) ==
    /\ Idle
    /\ workers[w].status = "closing"
    /\ workers' = [workers EXCEPT ![w].status = "closed"]
    /\ op' = "io"
    /\ ret' = Null
    /\ acq' = Null
    /\ UNCHANGED <<queueConnection, conns, myQueue, worker, frames, started, exited,
                   stopDone, lastAcq, relSince, lastReleased>>

\* ioredis: the link of connection c is closed.
QuitResolves(c) ==
    /\ Idle
    /\ conns[c].status = "quitting"
    /\ conns' = [conns EXCEPT ![c].status = "end"]
    /\ op' = "io"
    /\ ret' = Null
    /\ acq' = Null
    /\ UNCHANGED <<queueConnection, myQueue, worker, workers, frames, started, exited,
                   stopDone, lastAcq, relSince, lastReleased>>

\* stopWorker resumes after `await worker.close()` and calls
\* closeQueueConnection(), which runs to its await or returns.
AfterClose(f) ==
    /\ ~exited
    /\ f.pc = "awaitClose"
    /\ workers[f.w].status = "closed"
    /\ LET r == closeQueueConnection(queueConnection, conns) IN
        /\ conns' = r.conns
        /\ frames' = Become(f, IF r.pc = "done" THEN "afterRelease" ELSE r.pc, r.c)
        /\ relSince' = IF r.pc = "done" THEN TRUE ELSE relSince
    /\ op' = "resume"
    /\ ret' = Null
    /\ acq' = Null
    /\ UNCHANGED <<queueConnection, myQueue, worker, workers, started, exited,
                   stopDone, lastAcq, lastReleased>>

\* closeQueueConnection resumes after `await queueConnection.quit()`.
AfterQuit(f) ==
    /\ ~exited
    /\ f.pc = "awaitQuit"
    /\ conns[f.c].status = "end"
    /\ queueConnection' = closeQueueConnection_resume(queueConnection)
    /\ frames' = Become(f, IF f.fn = "closeQueueConnection" THEN "done"
                            ELSE "afterRelease", f.c)
    /\ relSince' = TRUE
    /\ lastReleased' = f.c
    /\ op' = "resume"
    /\ ret' = Null
    /\ acq' = Null
    /\ UNCHANGED <<conns, myQueue, worker, workers, started, exited, stopDone, lastAcq>>

\* stopWorker resumes after `await closeQueueConnection()` and returns.
AfterRelease(f) ==
    /\ ~exited
    /\ f.pc = "afterRelease"
    /\ worker' = stopWorker_resume(worker)
    /\ frames' = Become(f, IF f.fn = "shutdown" THEN shutdown("done") ELSE "done", f.c)
    /\ stopDone' = TRUE
    /\ op' = "resume"
    /\ ret' = Null
    /\ acq' = Null
    /\ UNCHANGED <<queueConnection, conns, myQueue, workers, started, exited,
                   lastAcq, relSince, lastReleased>>

\* index.ts main(): startWorker() runs synchronously when the module loads.
Main ==
    /\ ~started
    /\ ~exited
    /\ started' = TRUE
    /\ StartWorkerBody

\* index.ts: SIGINT or SIGTERM is delivered; shutdown calls stopWorker(),
\* which runs to its first await or returns.
Signal(signal) ==
    /\ Idle
    /\ started
    /\ CanCall
    /\ LET r == stopWorker(worker, workers, queueConnection, conns) IN
        /\ workers' = r.workers
        /\ conns' = r.conns
        /\ frames' = Push([fn |-> "shutdown", arg |-> signal, pc |-> shutdown(r.pc),
                           w |-> r.w, c |-> r.c])
    /\ op' = "shutdown"
    /\ ret' = Null
    /\ acq' = Null
    /\ UNCHANGED <<queueConnection, myQueue, worker, started, exited, stopDone,
                   lastAcq, relSince, lastReleased>>

\* shutdown resumes after `await stopWorker()`: process.exit(0).
AfterStop(f) ==
    /\ ~exited
    /\ f.pc = "afterStop"
    /\ exited' = TRUE
    /\ frames' = Pop(f)
    /\ op' = "exit"
    /\ ret' = Null
    /\ acq' = Null
    /\ UNCHANGED <<queueConnection, conns, myQueue, worker, workers, started,
                   stopDone, lastAcq, relSince, lastReleased>>

\* The exported functions of the config and queue packages, called in any
\* order by the services that import them.
Next ==
    \/ GetQueueConnectionCall
    \/ CloseQueueConnectionCall
    \/ GetMyQueueCall
    \/ StartWorkerCall
    \/ StopWorkerCall
    \/ \E w \in WorkerIds : WorkerCloseResolves(w)
    \/ \E c \in ConnIds : QuitResolves(c)
    \/ \E f \in Frames : AfterClose(f)
    \/ \E f \in Frames : AfterQuit(f)
    \/ \E f \in Frames : AfterRelease(f)

Spec == Init /\ [][Next]_vars

\* The worker process of apps/worker/src/index.ts: main(), then signals.
AppNext ==
    \/ Main
    \/ \E signal \in Signals : Signal(signal)
    \/ \E w \in WorkerIds : WorkerCloseResolves(w)
    \/ \E c \in ConnIds : QuitResolves(c)
    \/ \E f \in Frames : AfterClose(f)
    \/ \E f \in Frames : AfterQuit(f)
    \/ \E f \in Frames : AfterRelease(f)
    \/ \E f \in Frames : AfterStop(f)

AppSpec == Init /\ [][AppNext]_vars

(***************************************************************************)
(* Properties                                                              *)
(***************************************************************************)

\* C1: two getQueueConnection() calls with no completed closeQueueConnection()
\* between them return the identical instance, and a getQueueConnection()
\* that follows a completed closeQueueConnection() returns a newly constructed
\* instance that is not the released one.
C1_AcquireIdentity ==
    [][acq' # Null =>
        /\ (lastAcq # Null /\ ~relSince) => acq' = lastAcq
        /\ relSince => /\ conns[acq'].status = "none"
                       /\ acq' # lastReleased]_vars

\* C1 witness: an acquire has followed a completed release of an earlier
\* instance and returned another one.
C1_Witness ==
    /\ acq # Null
    /\ lastReleased # Null
    /\ conns[lastReleased].status = "end"
    /\ ~relSince
    /\ acq # lastReleased
    /\ queueConnection = acq

Unclosed == {w \in WorkerIds : workers[w].status \in {"running", "closing"}}

\* C8: startWorker() called while a worker exists returns that worker and
\* constructs no Worker, and at most one Worker that has not been closed
\* exists in every state.
C8_StartIdempotent ==
    [][/\ (op' = "startWorker" /\ worker # Null) =>
            /\ ret' = worker
            /\ worker' = worker
            /\ workers' = workers
       /\ Cardinality(Unclosed') <= 1]_vars

\* C8 witness: startWorker() was called while a stop was draining the worker
\* and returned that same worker.
C8_Witness ==
    /\ op = "startWorker"
    /\ worker # Null
    /\ ret = worker
    /\ workers[worker].status = "closing"
    /\ CreatedWorkers(workers) = {worker}

\* C9: stopWorker() called when no worker exists returns at once and leaves
\* the worker, the queue, the connection and every suspended call unchanged;
\* in particular it does not quit the shared connection.
C9_StopWithoutWorkerNoOp ==
    [][(op' = "stopWorker" /\ worker = Null) =>
            UNCHANGED <<queueConnection, conns, myQueue, worker, workers, frames>>]_vars

\* C9 witness: after a completed stopWorker() a connection was acquired
\* again, and a second stopWorker() returned with that connection still open.
C9_Witness ==
    /\ op = "stopWorker"
    /\ stopDone
    /\ worker = Null
    /\ queueConnection # Null
    /\ conns[queueConnection].status = "ready"
    /\ conns[queueConnection].quits = 0
    /\ frames = EmptyBag

\* C10: the process exits only after a stopWorker() call has run to its last
\* statement: the worker is closed, the connection it used is closed and both
\* singletons are cleared.
C10_ExitAfterStop ==
    exited =>
        /\ stopDone
        /\ worker = Null
        /\ queueConnection = Null
        /\ \A w \in CreatedWorkers(workers) :
              /\ workers[w].status = "closed"
              /\ conns[workers[w].connection].status = "end"

\* C10 witness: the process has exited while the shutdown of a second signal
\* was still in flight.
C10_Witness ==
    /\ exited
    /\ \E f \in Frames : f.fn = "shutdown" /\ f.pc # "done"

\* C11: the connection of the cached Queue and the connection of the existing
\* Worker are the instance queue.ts currently caches, and getMyQueue() never
\* returns a Queue bound to a connection that has been closed.
C11_SharedConnection ==
    /\ myQueue # NoQueue => myQueue.connection = queueConnection
    /\ worker # Null => workers[worker].connection = queueConnection
    /\ op = "getMyQueue" => conns[ret].status # "end"

\* C12: every Redis instance is quit at most once (exactly once when its link
\* is closed), and getQueueConnection() never returns an instance whose quit
\* has already been requested.
C12_ReleaseIdempotent ==
    /\ \A c \in ConnIds : conns[c].quits <= 1
    /\ \A c \in ConnIds : conns[c].status = "end" => conns[c].quits = 1
    /\ acq # Null => conns[acq].quits = 0
====
